---- MODULE Spec2Model ----
(***************************************************************************)
(* Lifecycle and pipeline of the NeoFS BlockFetcher service                *)
(* (package blockfetcher): Start, Shutdown, stopService, the exiter, the   *)
(* OID downloader, the block downloaders and the block queuer, each        *)
(* goroutine stepping from one blocking point of its code to the next.     *)
(*                                                                         *)
(* An object id is modelled by the Index of the block it addresses, so     *)
(* objectGet + readBlock of id i yields the block with Index i.            *)
(* A channel is a sequence plus a "closed" flag; a barrier channel (only   *)
(* ever closed, never sent on) is its "closed" flag alone.                 *)
(* A runtime panic ends the process: panicked becomes TRUE and no          *)
(* goroutine takes another step.                                           *)
(***************************************************************************)
EXTENDS Integers, Sequences, FiniteSets, TLC

\* ---------------------------------------------------------------- bounds
\* the storage holds the blocks with Index 0..MaxBlocks-1
MaxBlocks == 3
\* chain.BlockHeight() at the moment the discoverer reads it is in 0..MaxHeight
MaxHeight == 1
\* cfg.OIDBatchSize of the modelled configuration
OIDBatchSize == 1
\* cfg.IndexFileSize of the modelled configuration
IndexFileSize == 2

\* callers of the exported methods: both may call Start at any time, and
\* Stoppers are the ones that may call Shutdown as well
Users == {"u1", "u2"}
Stoppers == {"u2"}
\* A successful Start launches one generation of goroutines.  A third
\* generation cannot exist: the exiter of the second one panics before it
\* can reset isActive (StartClient would leave the domain otherwise).
Gens == {1, 2}
\* the values of cfg.DownloaderWorkersCount examined, and the worker slots
WorkerCounts == {1, 2}
Workers == {1, 2}

VARIABLES
    cfg,                    \* Service.cfg (normalized configuration)
    chainHeight,            \* what chain.BlockHeight() returns
    store,                  \* contents of the NeoFS container (see below)
    constructed,            \* "no" before New is called, then "ok" or "error"
    isActive,               \* Service.isActive
    ctxCancelled,           \* whether the current bfs.ctx is cancelled
    clientOpen,             \* bfs.client is a usable (created, not closed) client
    clientCloses,           \* number of bfs.client.Close() calls
    gen,                    \* number of generations launched so far
    launched,               \* workers launched by the Start call in progress
    userPc,                 \* position of every caller
    quit,                   \* state of the unbuffered channel bfs.quit
    quitVal,                \* the value offered on / taken from bfs.quit
    quitOnce,               \* bfs.quitOnce: "fresh", "running" or "done"
    exiterToOIDDownloader,  \* TRUE when closed
    oidDownloaderToExiter,  \* TRUE when closed
    blockQueuerToExiter,    \* TRUE when closed
    exiterToShutdown,       \* TRUE when closed
    oidsCh, oidsClosed,     \* bfs.oidsCh: buffered ids, closed flag
    blocksCh, blocksClosed, \* bfs.blocksCh: buffered blocks, closed flag
    wg,                     \* counter of bfs.wg
    exiter,                 \* [Gens -> [pc, force]]
    disc,                   \* [Gens -> oidDownloader goroutine state]
    worker,                 \* [Gens -> [Workers -> blockDownloader state]]
    queuer,                 \* [Gens -> blockQueuer goroutine state]
    enqueued,               \* history: Index of every block passed to enqueueBlock
    inFlight,               \* enqueueBlock calls that have not returned yet
    emitted,                \* history: ids sent into oidsCh, in order
    callbacks,              \* number of shutdownCallback() invocations
    shutdownCalled,         \* history: Shutdown was called on an active service
    panicked                \* the process died of a runtime panic

vars == << cfg, chainHeight, store, constructed, isActive, ctxCancelled, clientOpen, clientCloses,
           gen, launched, userPc, quit, quitVal, quitOnce,
           exiterToOIDDownloader, oidDownloaderToExiter, blockQueuerToExiter,
           exiterToShutdown, oidsCh, oidsClosed, blocksCh, blocksClosed, wg,
           exiter, disc, worker, queuer, enqueued, inFlight, emitted,
           callbacks, shutdownCalled, panicked >>

\* groups used in UNCHANGED clauses
cfgVars   == << cfg, chainHeight, store, constructed >>
userVars  == << userPc, launched, shutdownCalled >>
quitVars  == << quit, quitVal, quitOnce >>
barriers  == << exiterToOIDDownloader, oidDownloaderToExiter,
                blockQueuerToExiter, exiterToShutdown >>
oidsVars  == << oidsCh, oidsClosed, emitted >>
blockVars == << blocksCh, blocksClosed >>
enqVars   == << enqueued, inFlight >>
cliVars   == << clientOpen, clientCloses >>
lifeVars  == << isActive, gen, callbacks >>

\* ------------------------------------------------------- storage contents
\* numbers of the index objects held by the storage in the runs that
\* examine the discovery
IndexFiles == {0, 1}

\* store.blocks: the container holds the blocks with Index 0..blocks-1;
\* store.files:  it holds the index objects 0..files-1;
\* store.bad, store.shape: index object number bad (none when bad = -1) has
\*   a payload that is not IndexFileSize whole ids: one id short ("short"),
\*   one id long ("long"), or ending in a partial id ("partial").
Shapes == {"exact", "short", "long", "partial"}

\* the payload chunk that is fewer than 32 bytes
PartialOID == -1

\* ids of the stored blocks whose Index lies in lo..hi, ascending: the result
\* of SEARCH with BlockAttribute >= lo AND BlockAttribute <= hi
RECURSIVE SearchRange(_, _)
SearchRange(lo, hi) ==
    IF lo > hi THEN << >>
    ELSE IF lo < store.blocks THEN << lo >> \o SearchRange(lo + 1, hi)
    ELSE << >>

\* number of index objects in the storage
NumIndexFiles == store.files

\* payload of index object i, as the chunks io.ReadFull meets: the ids of
\* blocks i*S, i*S + 1, ... in order (S of them when the object is well
\* formed), a partial id last when the shape says so
IndexObject(i) ==
    LET shape == IF i = store.bad THEN store.shape ELSE "exact"
        n == CASE shape = "short" -> IndexFileSize - 1
               [] shape = "long"  -> IndexFileSize + 1
               [] OTHER           -> IndexFileSize
    IN  [ j \in 1..n |->
            IF shape = "partial" /\ j = n THEN PartialOID
            ELSE i * IndexFileSize + (j - 1) ]

\* capacities given to the channels by New
OidsCap   == 2 * cfg.OIDBatchSize
BlocksCap == cfg.OIDBatchSize

\* ------------------------------------------------------------------- Init
NoneDisc   == [pc |-> "none", h |-> 0, startIndex |-> 0, skip |-> 0,
               processed |-> 0, batch |-> << >>, err |-> FALSE]
NoneWorker == [pc |-> "none", item |-> 0, reqCancelled |-> FALSE,
               failed |-> FALSE]
NoneQueuer == [pc |-> "none", item |-> 0, failed |-> FALSE]
NoneExiter == [pc |-> "none", force |-> FALSE]

\* the Service as New returns it
Fresh ==
    /\ isActive = FALSE
    /\ ctxCancelled = FALSE
    /\ clientOpen = FALSE
    /\ clientCloses = 0
    /\ gen = 0
    /\ launched = 0
    /\ userPc = [u \in Users |-> "idle"]
    /\ quit = "empty"
    /\ quitVal = FALSE
    /\ quitOnce = "fresh"
    /\ exiterToOIDDownloader = FALSE
    /\ oidDownloaderToExiter = FALSE
    /\ blockQueuerToExiter = FALSE
    /\ exiterToShutdown = FALSE
    /\ oidsCh = << >>
    /\ oidsClosed = FALSE
    /\ blocksCh = << >>
    /\ blocksClosed = FALSE
    /\ wg = 0
    /\ exiter = [g \in Gens |-> NoneExiter]
    /\ disc = [g \in Gens |-> NoneDisc]
    /\ worker = [g \in Gens |-> [i \in Workers |-> NoneWorker]]
    /\ queuer = [g \in Gens |-> NoneQueuer]
    /\ enqueued = << >>
    /\ inFlight = 0
    /\ emitted = << >>
    /\ callbacks = 0
    /\ shutdownCalled = FALSE
    /\ panicked = FALSE

Init ==
    /\ cfg \in [ DownloaderWorkersCount : WorkerCounts,
                 OIDBatchSize : {OIDBatchSize},
                 IndexFileSize : {IndexFileSize},
                 SkipIndexFilesSearch : BOOLEAN ]
    /\ chainHeight \in 0..MaxHeight
    /\ store = [blocks |-> MaxBlocks, files |-> MaxBlocks \div IndexFileSize,
                bad |-> -1, shape |-> "exact"]
    /\ constructed = "ok"
    /\ Fresh

\* -------------------------------------------------------------------- New
\* the defaults of lines 30-34; the timeout is counted in seconds
defaultTimeout == 300
defaultOIDBatchSize == 8000
defaultDownloaderWorkersCount == 100

\* largest value of a numeric field of the configuration handed to New
MaxRaw == 2

\* the configurations handed to New: WalletOK says whether lines 83-102 get
\* an account, Addresses is len(cfg.Addresses)
RawConfigs ==
    [ WalletOK : BOOLEAN,
      Timeout : -1..MaxRaw,
      OIDBatchSize : -1..MaxRaw,
      DownloaderWorkersCount : -1..MaxRaw,
      Addresses : 0..1,
      IndexFileSize : {0, IndexFileSize},
      SkipIndexFilesSearch : BOOLEAN ]

\* NormalizeConfig with the comparisons of lines 103, 106 and 109 written
\* "< 0"
NormalizeConfigStrict(c) ==
    [c EXCEPT !.Timeout = IF c.Timeout < 0 THEN defaultTimeout ELSE c.Timeout,
              !.OIDBatchSize = IF c.OIDBatchSize < 0
                               THEN defaultOIDBatchSize ELSE c.OIDBatchSize,
              !.DownloaderWorkersCount =
                  IF c.DownloaderWorkersCount < 0
                  THEN defaultDownloaderWorkersCount
                  ELSE c.DownloaderWorkersCount]

\* lines 103-111: the defaults applied to New's copy of the configuration
NormalizeConfig(c) ==
    [c EXCEPT !.Timeout = IF c.Timeout <= 0 THEN defaultTimeout ELSE c.Timeout,
              !.OIDBatchSize = IF c.OIDBatchSize <= 0
                               THEN defaultOIDBatchSize ELSE c.OIDBatchSize,
              !.DownloaderWorkersCount =
                  IF c.DownloaderWorkersCount <= 0
                  THEN defaultDownloaderWorkersCount
                  ELSE c.DownloaderWorkersCount]

\* New, lines 77-141.  Before the call cfg is the configuration handed to it
\* (by value); after a successful call it is Service.cfg.
\*  - no account from the wallet (lines 86, 95, 100): an error;
\*  - no address (lines 112-114): an error;
\*  - otherwise the Service with the normalized configuration.
New ==
    /\ constructed = "no"
    /\ \/ /\ ~cfg.WalletOK
          /\ constructed' = "error"
          /\ UNCHANGED cfg
       \/ /\ cfg.WalletOK
          /\ NormalizeConfig(cfg).Addresses = 0
          /\ constructed' = "error"
          /\ UNCHANGED cfg
       \/ /\ cfg.WalletOK
          /\ NormalizeConfig(cfg).Addresses # 0
          /\ constructed' = "ok"
          /\ cfg' = NormalizeConfig(cfg)
    /\ UNCHANGED << chainHeight, store, ctxCancelled, cliVars, lifeVars,
                    userVars, quitVars, barriers, oidsVars, blockVars, wg,
                    exiter, disc, worker, queuer, enqVars, panicked >>

\* ------------------------------------------------------------ stopService
\* stopService(force), first half: quitOnce.Do entered.  The first caller
\* starts the send on the unbuffered quit channel and blocks in it; a caller
\* that arrives when the Once is done returns at once; a caller that arrives
\* while the first one is still inside the Once waits (not enabled).
\*   StopOffer: the caller is the first one;  StopSkip: the Once is done.
\* stopService without the Once: every caller sends on quit
StopOfferNoOnce(force) ==
    /\ quitOnce' = "running"
    /\ quit' = "offered"
    /\ quitVal' = force

StopOffer(force) ==
    /\ quitOnce = "fresh"
    /\ quitOnce' = "running"
    /\ quit' = "offered"
    /\ quitVal' = force

StopSkip ==
    /\ quitOnce = "done"
    /\ UNCHANGED quitVars

\* stopService, second half: the exiter has received the value, the sender
\* closes the channel and leaves the Once.
StopFinish ==
    /\ quit = "taken"
    /\ quit' = "closed"
    /\ quitOnce' = "done"
    /\ UNCHANGED quitVal


\* ------------------------------------------------------------------ Start
\* a Start that goes on whatever the flag says
StartNoCAS(u) ==
    /\ userPc[u] = "idle"
    /\ isActive' = TRUE
    /\ userPc' = [userPc EXCEPT ![u] = "s_client"]
    /\ UNCHANGED << cfgVars, ctxCancelled, cliVars, gen, callbacks,
                    launched, shutdownCalled, quitVars, barriers,
                    oidsVars, blockVars, wg, exiter, disc, worker,
                    queuer, enqVars, panicked >>

\* Start, line 145: CompareAndSwap(false, true); a call that finds the flag
\* set returns nil with no effect.
StartCAS(u) ==
    /\ userPc[u] = "idle"
    /\ IF isActive
       THEN UNCHANGED vars
       ELSE /\ isActive' = TRUE
            /\ userPc' = [userPc EXCEPT ![u] = "s_client"]
            /\ UNCHANGED << cfgVars, ctxCancelled, cliVars, gen, callbacks,
                            launched, shutdownCalled, quitVars, barriers,
                            oidsVars, blockVars, wg, exiter, disc, worker,
                            queuer, enqVars, panicked >>

\* a Start that leaves the flag set when the client creation fails
StartClientNoRevert(u) ==
    /\ userPc[u] = "s_client"
    /\ ctxCancelled' = FALSE
    /\ \/ /\ clientOpen' = FALSE
          /\ userPc' = [userPc EXCEPT ![u] = "idle"]
          /\ UNCHANGED << gen, exiter, disc, launched >>
       \/ /\ clientOpen' = TRUE
          /\ gen' = gen + 1
          /\ exiter' = [exiter EXCEPT ![gen + 1].pc = "quit"]
          /\ disc' = [disc EXCEPT ![gen + 1].pc = "start"]
          /\ launched' = 0
          /\ userPc' = [userPc EXCEPT ![u] = "s_workers"]
    /\ UNCHANGED << cfgVars, isActive, clientCloses, callbacks,
                    shutdownCalled, quitVars, barriers, oidsVars, blockVars,
                    wg, worker, queuer, enqVars, panicked >>

\* Start, lines 151-162: a fresh root context, the SDK client; on error the
\* flag is reverted and the error returned, otherwise the exiter and the
\* oidDownloader are launched (a goroutine acts from its first own step on).
StartClient(u) ==
    /\ userPc[u] = "s_client"
    /\ ctxCancelled' = FALSE
    /\ \/ /\ clientOpen' = FALSE
          /\ isActive' = FALSE
          /\ userPc' = [userPc EXCEPT ![u] = "idle"]
          /\ UNCHANGED << gen, exiter, disc, launched >>
       \/ /\ clientOpen' = TRUE
          /\ gen' = gen + 1
          /\ exiter' = [exiter EXCEPT ![gen + 1].pc = "quit"]
          /\ disc' = [disc EXCEPT ![gen + 1].pc = "start"]
          /\ launched' = 0
          /\ userPc' = [userPc EXCEPT ![u] = "s_workers"]
          /\ UNCHANGED isActive
    /\ UNCHANGED << cfgVars, clientCloses, callbacks, shutdownCalled,
                    quitVars, barriers, oidsVars, blockVars, wg, worker,
                    queuer, enqVars, panicked >>

\* Start, lines 165-168, one iteration: wg.Add(1); go bfs.blockDownloader()
StartBlockDownloader(u) ==
    /\ userPc[u] = "s_workers"
    /\ launched < cfg.DownloaderWorkersCount
    /\ wg' = wg + 1
    /\ worker' = [worker EXCEPT ![gen][launched + 1].pc = "recv"]
    /\ launched' = launched + 1
    /\ UNCHANGED << cfgVars, ctxCancelled, cliVars, lifeVars, userPc,
                    shutdownCalled, quitVars, barriers, oidsVars, blockVars,
                    exiter, disc, queuer, enqVars, panicked >>

\* Start, lines 171-173: go bfs.blockQueuer(); return nil
StartBlockQueuer(u) ==
    /\ userPc[u] = "s_workers"
    /\ launched = cfg.DownloaderWorkersCount
    /\ queuer' = [queuer EXCEPT ![gen].pc = "recv"]
    /\ userPc' = [userPc EXCEPT ![u] = "idle"]
    /\ UNCHANGED << cfgVars, ctxCancelled, cliVars, lifeVars, launched,
                    shutdownCalled, quitVars, barriers, oidsVars, blockVars,
                    wg, exiter, disc, worker, enqVars, panicked >>

\* --------------------------------------------------------------- Shutdown
\* Shutdown, lines 396-398: return if not active, else go on to stopService
ShutdownCall(u) ==
    /\ userPc[u] = "idle"
    /\ userPc' = [userPc EXCEPT ![u] = IF isActive THEN "sh_stop" ELSE "sh_ret"]
    /\ shutdownCalled' = (shutdownCalled \/ isActive)
    /\ UNCHANGED << cfgVars, ctxCancelled, cliVars, lifeVars, launched,
                    quitVars, barriers, oidsVars, blockVars, wg, exiter, disc,
                    worker, queuer, enqVars, panicked >>

\* Shutdown, line 399: bfs.stopService(true), entering the Once
ShutdownStop(u) ==
    /\ userPc[u] = "sh_stop"
    /\ \/ StopOffer(TRUE) /\ userPc' = [userPc EXCEPT ![u] = "sh_send"]
       \/ StopSkip /\ userPc' = [userPc EXCEPT ![u] = "sh_wait"]
    /\ UNCHANGED << cfgVars, ctxCancelled, cliVars, lifeVars, launched,
                    shutdownCalled, barriers, oidsVars, blockVars, wg, exiter,
                    disc, worker, queuer, enqVars, panicked >>

\* Shutdown, line 399: the send was received, stopService returns
ShutdownStopped(u) ==
    /\ userPc[u] = "sh_send"
    /\ StopFinish
    /\ userPc' = [userPc EXCEPT ![u] = "sh_wait"]
    /\ UNCHANGED << cfgVars, ctxCancelled, cliVars, lifeVars, launched,
                    shutdownCalled, barriers, oidsVars, blockVars, wg, exiter,
                    disc, worker, queuer, enqVars, panicked >>

\* Shutdown, line 400: <-bfs.exiterToShutdown
ShutdownWait(u) ==
    /\ userPc[u] = "sh_wait"
    /\ exiterToShutdown
    /\ userPc' = [userPc EXCEPT ![u] = "sh_ret"]
    /\ UNCHANGED << cfgVars, ctxCancelled, cliVars, lifeVars, launched,
                    shutdownCalled, quitVars, barriers, oidsVars, blockVars,
                    wg, exiter, disc, worker, queuer, enqVars, panicked >>

\* Shutdown has returned; the caller is free to make its next call
ShutdownReturn(u) ==
    /\ userPc[u] = "sh_ret"
    /\ userPc' = [userPc EXCEPT ![u] = "idle"]
    /\ UNCHANGED << cfgVars, ctxCancelled, cliVars, lifeVars, launched,
                    shutdownCalled, quitVars, barriers, oidsVars, blockVars,
                    wg, exiter, disc, worker, queuer, enqVars, panicked >>

\* ---------------------------------------------------------- oidDownloader
\* fetchOIDs* returns err to oidDownloader, which goes on to stopService
DiscReturn(g, err) == [disc EXCEPT ![g].pc = "stop", ![g].err = err,
                                   ![g].batch = << >>]

\* OidDownloaderStart with line 253 left out: nothing of the first index
\* object is discarded
OidDownloaderStartNoSkip(g) ==
    /\ disc[g].pc = "start"
    /\ disc' = IF cfg.SkipIndexFilesSearch
               THEN [disc EXCEPT ![g].pc = "loop", ![g].h = chainHeight,
                                 ![g].startIndex = chainHeight]
               ELSE [disc EXCEPT ![g].pc = "loop", ![g].h = chainHeight,
                                 ![g].startIndex = chainHeight \div cfg.IndexFileSize]
    /\ UNCHANGED << cfgVars, ctxCancelled, cliVars, lifeVars, userVars,
                    quitVars, barriers, oidsVars, blockVars, wg, exiter,
                    worker, queuer, enqVars, panicked >>

\* oidDownloader, lines 181-185, and the first lines of the chosen strategy:
\* the ledger height is read once (lines 251-253 or 344-345).  The integer
\* division of line 252 by an IndexFileSize of 0 is a run-time panic, in a
\* goroutine that recovers from none.
OidDownloaderStart(g) ==
    /\ disc[g].pc = "start"
    /\ IF ~cfg.SkipIndexFilesSearch /\ cfg.IndexFileSize = 0
       THEN /\ panicked' = TRUE
            /\ UNCHANGED disc
       ELSE /\ disc' = IF cfg.SkipIndexFilesSearch
                       THEN [disc EXCEPT ![g].pc = "loop", ![g].h = chainHeight,
                                         ![g].startIndex = chainHeight]
                       ELSE [disc EXCEPT ![g].pc = "loop", ![g].h = chainHeight,
                                         ![g].startIndex = chainHeight \div cfg.IndexFileSize,
                                         ![g].skip = chainHeight % cfg.IndexFileSize]
            /\ UNCHANGED panicked
    /\ UNCHANGED << cfgVars, ctxCancelled, cliVars, lifeVars, userVars,
                    quitVars, barriers, oidsVars, blockVars, wg, exiter,
                    worker, queuer, enqVars >>

\* SearchResult with an upper bound one too high at line 355
SearchResultWide(g) ==
    LET ids == SearchRange(disc[g].startIndex,
                           disc[g].startIndex + cfg.OIDBatchSize)
    IN  IF ids = << >>
        THEN DiscReturn(g, FALSE)
        ELSE [disc EXCEPT ![g].pc = "emit", ![g].batch = ids]

\* what one pass of fetchOIDsBySearch (lines 352-370) yields when the SEARCH
\* answers: no id ends the discovery, otherwise the batch is emitted
SearchResult(g) ==
    LET ids == SearchRange(disc[g].startIndex,
                           disc[g].startIndex + cfg.OIDBatchSize - 1)
    IN  IF ids = << >>
        THEN DiscReturn(g, FALSE)
        ELSE [disc EXCEPT ![g].pc = "emit", ![g].batch = ids]

\* what one pass of fetchOIDsFromIndexFiles (lines 260-289) yields when the
\* SEARCH and the GET answer: no index object ends the discovery, otherwise
\* the object's payload is streamed
IndexResult(g) ==
    IF disc[g].startIndex < NumIndexFiles
    THEN [disc EXCEPT ![g].pc = "stream", ![g].processed = 0,
                      ![g].batch = IndexObject(disc[g].startIndex)]
    ELSE DiscReturn(g, FALSE)

\* FetchLoop with the ledger height read again before every SEARCH, the
\* search index advanced to it when the ledger is ahead
FetchLoopPolling(g) ==
    /\ disc[g].pc = "loop"
    /\ \/ /\ exiterToOIDDownloader \/ ctxCancelled
          /\ disc' = DiscReturn(g, FALSE)
       \/ /\ ~exiterToOIDDownloader /\ ~ctxCancelled
          /\ disc' = DiscReturn(g, TRUE)
       \/ /\ ~exiterToOIDDownloader /\ ~ctxCancelled
          /\ LET now  == IF cfg.SkipIndexFilesSearch THEN chainHeight
                         ELSE chainHeight \div cfg.IndexFileSize
                 from == IF now > disc[g].startIndex
                         THEN now ELSE disc[g].startIndex
                 ids  == SearchRange(from, from + cfg.OIDBatchSize - 1)
             IN  disc' =
                   IF cfg.SkipIndexFilesSearch
                   THEN IF ids = << >>
                        THEN DiscReturn(g, FALSE)
                        ELSE [disc EXCEPT ![g].pc = "emit",
                                          ![g].startIndex = from,
                                          ![g].batch = ids]
                   ELSE IF from < NumIndexFiles
                        THEN [disc EXCEPT ![g].pc = "stream",
                                          ![g].startIndex = from,
                                          ![g].processed = 0,
                                          ![g].batch = IndexObject(from)]
                        ELSE DiscReturn(g, FALSE)
    /\ UNCHANGED << cfgVars, ctxCancelled, cliVars, lifeVars, userVars,
                    quitVars, barriers, oidsVars, blockVars, wg, exiter,
                    worker, queuer, enqVars, panicked >>

\* head of the for loop of either strategy (lines 256-287, 348-370): return
\* nil when the stop barrier is closed; otherwise the requests are issued:
\* on a cancelled context they return a cancellation error (return nil),
\* otherwise they fail with another error (returned) or answer
FetchLoop(g) ==
    /\ disc[g].pc = "loop"
    /\ \/ /\ exiterToOIDDownloader \/ ctxCancelled
          /\ disc' = DiscReturn(g, FALSE)
       \/ /\ ~exiterToOIDDownloader /\ ~ctxCancelled
          /\ disc' = DiscReturn(g, TRUE)
       \/ /\ ~exiterToOIDDownloader /\ ~ctxCancelled
          /\ disc' = IF cfg.SkipIndexFilesSearch
                     THEN SearchResult(g) ELSE IndexResult(g)
    /\ UNCHANGED << cfgVars, ctxCancelled, cliVars, lifeVars, userVars,
                    quitVars, barriers, oidsVars, blockVars, wg, exiter,
                    worker, queuer, enqVars, panicked >>

\* StreamRead with the comparison of lines 336-338 left out
StreamReadNoCount(g) ==
    /\ disc[g].pc = "stream"
    /\ \/ /\ disc[g].batch = << >>
          /\ disc' = [disc EXCEPT ![g].pc = "loop", ![g].skip = 0,
                           ![g].startIndex = disc[g].startIndex + 1]
       \/ /\ disc[g].batch # << >>
          /\ disc' = DiscReturn(g, ~ctxCancelled)
       \/ /\ disc[g].batch # << >>
          /\ Head(disc[g].batch) = PartialOID
          /\ disc' = DiscReturn(g, TRUE)
       \/ /\ disc[g].batch # << >>
          /\ Head(disc[g].batch) # PartialOID
          /\ disc' = IF disc[g].processed < disc[g].skip
                     THEN [disc EXCEPT ![g].processed = disc[g].processed + 1,
                                       ![g].batch = Tail(disc[g].batch)]
                     ELSE [disc EXCEPT ![g].pc = "emit"]
    /\ UNCHANGED << cfgVars, ctxCancelled, cliVars, lifeVars, userVars,
                    quitVars, barriers, oidsVars, blockVars, wg, exiter,
                    worker, queuer, enqVars, panicked >>

\* streamBlockOIDs, lines 309-321 and 336-339, and lines 289-298 of its
\* caller: one io.ReadFull.  batch is the unread rest of the stream.
\*  - EOF: the count is compared with IndexFileSize; a mismatch is an error,
\*    otherwise startIndex++, skip = 0 and the outer loop goes on;
\*  - a read error (a cancellation error when the context is cancelled);
\*  - a partial id: io.ReadFull fails with ErrUnexpectedEOF, an error;
\*  - an id that is skipped (oidsProcessed < skip) or goes on to be sent.
StreamRead(g) ==
    /\ disc[g].pc = "stream"
    /\ \/ /\ disc[g].batch = << >>
          /\ disc' = IF disc[g].processed # cfg.IndexFileSize
                     THEN DiscReturn(g, TRUE)
                     ELSE [disc EXCEPT ![g].pc = "loop", ![g].skip = 0,
                                ![g].startIndex = disc[g].startIndex + 1]
       \/ /\ disc[g].batch # << >>
          /\ disc' = DiscReturn(g, ~ctxCancelled)
       \/ /\ disc[g].batch # << >>
          /\ Head(disc[g].batch) = PartialOID
          /\ disc' = DiscReturn(g, TRUE)
       \/ /\ disc[g].batch # << >>
          /\ Head(disc[g].batch) # PartialOID
          /\ disc' = IF disc[g].processed < disc[g].skip
                     THEN [disc EXCEPT ![g].processed = disc[g].processed + 1,
                                       ![g].batch = Tail(disc[g].batch)]
                     ELSE [disc EXCEPT ![g].pc = "emit"]
    /\ UNCHANGED << cfgVars, ctxCancelled, cliVars, lifeVars, userVars,
                    quitVars, barriers, oidsVars, blockVars, wg, exiter,
                    worker, queuer, enqVars, panicked >>

\* EmitOID into an id channel that takes an id whatever it holds
EmitOIDNoCap(g) ==
    /\ disc[g].pc = "emit"
    /\ \/ /\ exiterToOIDDownloader
          /\ disc' = IF cfg.SkipIndexFilesSearch
                     THEN DiscReturn(g, FALSE)
                     ELSE [disc EXCEPT ![g].pc = "loop", ![g].skip = 0,
                                ![g].batch = << >>,
                                ![g].startIndex = disc[g].startIndex + 1]
          /\ UNCHANGED << oidsVars, panicked >>
       \/ /\ oidsClosed
          /\ panicked' = TRUE
          /\ UNCHANGED << disc, oidsVars >>
       \/ /\ ~oidsClosed
          /\ oidsCh' = Append(oidsCh, Head(disc[g].batch))
          /\ emitted' = Append(emitted, Head(disc[g].batch))
          /\ disc' = IF cfg.SkipIndexFilesSearch
                     THEN IF Tail(disc[g].batch) = << >>
                          THEN [disc EXCEPT ![g].pc = "loop", ![g].batch = << >>,
                                   ![g].startIndex =
                                       disc[g].startIndex + cfg.OIDBatchSize]
                          ELSE [disc EXCEPT ![g].batch = Tail(disc[g].batch)]
                     ELSE [disc EXCEPT ![g].pc = "stream",
                                       ![g].processed = disc[g].processed + 1,
                                       ![g].batch = Tail(disc[g].batch)]
          /\ UNCHANGED << oidsClosed, panicked >>
    /\ UNCHANGED << cfgVars, ctxCancelled, cliVars, lifeVars, userVars,
                    quitVars, barriers, blockVars, wg, exiter, worker, queuer,
                    enqVars >>

\* EmitOID into an id channel that hands out the newest id first
EmitOIDFront(g) ==
    /\ disc[g].pc = "emit"
    /\ \/ /\ exiterToOIDDownloader
          /\ disc' = IF cfg.SkipIndexFilesSearch
                     THEN DiscReturn(g, FALSE)
                     ELSE [disc EXCEPT ![g].pc = "loop", ![g].skip = 0,
                                ![g].batch = << >>,
                                ![g].startIndex = disc[g].startIndex + 1]
          /\ UNCHANGED << oidsVars, panicked >>
       \/ /\ oidsClosed
          /\ panicked' = TRUE
          /\ UNCHANGED << disc, oidsVars >>
       \/ /\ ~oidsClosed
          /\ Len(oidsCh) < OidsCap
          /\ oidsCh' = << Head(disc[g].batch) >> \o oidsCh
          /\ emitted' = Append(emitted, Head(disc[g].batch))
          /\ disc' = IF cfg.SkipIndexFilesSearch
                     THEN IF Tail(disc[g].batch) = << >>
                          THEN [disc EXCEPT ![g].pc = "loop", ![g].batch = << >>,
                                   ![g].startIndex =
                                       disc[g].startIndex + cfg.OIDBatchSize]
                          ELSE [disc EXCEPT ![g].batch = Tail(disc[g].batch)]
                     ELSE [disc EXCEPT ![g].pc = "stream",
                                       ![g].processed = disc[g].processed + 1,
                                       ![g].batch = Tail(disc[g].batch)]
          /\ UNCHANGED << oidsClosed, panicked >>
    /\ UNCHANGED << cfgVars, ctxCancelled, cliVars, lifeVars, userVars,
                    quitVars, barriers, blockVars, wg, exiter, worker, queuer,
                    enqVars >>

\* the select that emits one id (lines 328-334, 371-378): return nil when the
\* stop barrier is closed, or send Head(batch) into oidsCh when it has room.
\* Both cases may be ready; a send on a closed channel panics.  A nil from
\* streamBlockOIDs takes fetchOIDsFromIndexFiles through lines 297-298 back
\* to the head of its loop.
EmitOID(g) ==
    /\ disc[g].pc = "emit"
    /\ \/ /\ exiterToOIDDownloader
          /\ disc' = IF cfg.SkipIndexFilesSearch
                     THEN DiscReturn(g, FALSE)
                     ELSE [disc EXCEPT ![g].pc = "loop", ![g].skip = 0,
                                ![g].batch = << >>,
                                ![g].startIndex = disc[g].startIndex + 1]
          /\ UNCHANGED << oidsVars, panicked >>
       \/ /\ oidsClosed
          /\ panicked' = TRUE
          /\ UNCHANGED << disc, oidsVars >>
       \/ /\ ~oidsClosed
          /\ Len(oidsCh) < OidsCap
          /\ oidsCh' = Append(oidsCh, Head(disc[g].batch))
          /\ emitted' = Append(emitted, Head(disc[g].batch))
          /\ disc' = IF cfg.SkipIndexFilesSearch
                     THEN IF Tail(disc[g].batch) = << >>
                          THEN [disc EXCEPT ![g].pc = "loop", ![g].batch = << >>,
                                   ![g].startIndex =
                                       disc[g].startIndex + cfg.OIDBatchSize]
                          ELSE [disc EXCEPT ![g].batch = Tail(disc[g].batch)]
                     ELSE [disc EXCEPT ![g].pc = "stream",
                                       ![g].processed = disc[g].processed + 1,
                                       ![g].batch = Tail(disc[g].batch)]
          /\ UNCHANGED << oidsClosed, panicked >>
    /\ UNCHANGED << cfgVars, ctxCancelled, cliVars, lifeVars, userVars,
                    quitVars, barriers, blockVars, wg, exiter, worker, queuer,
                    enqVars >>

\* deferred close(bfs.oidDownloaderToExiter) of oidDownloader (line 178);
\* closing a closed channel panics
OidDownloaderExit(g) ==
    IF oidDownloaderToExiter
    THEN /\ panicked' = TRUE
         /\ UNCHANGED << disc, oidDownloaderToExiter >>
    ELSE /\ oidDownloaderToExiter' = TRUE
         /\ disc' = [disc EXCEPT ![g].pc = "done"]
         /\ UNCHANGED panicked

\* oidDownloader, lines 186-192: stopService(err != nil), entering the Once;
\* when the Once is done already the goroutine returns
OidDownloaderStop(g) ==
    /\ disc[g].pc = "stop"
    /\ \/ /\ StopOffer(disc[g].err)
          /\ disc' = [disc EXCEPT ![g].pc = "stop_send"]
          /\ UNCHANGED << oidDownloaderToExiter, panicked >>
       \/ /\ StopSkip
          /\ OidDownloaderExit(g)
    /\ UNCHANGED << cfgVars, ctxCancelled, cliVars, lifeVars, userVars,
                    exiterToOIDDownloader, blockQueuerToExiter,
                    exiterToShutdown, oidsVars, blockVars, wg, exiter, worker,
                    queuer, enqVars >>

\* oidDownloader, line 192: the send was received; stopService and the
\* goroutine return
OidDownloaderStopped(g) ==
    /\ disc[g].pc = "stop_send"
    /\ StopFinish
    /\ OidDownloaderExit(g)
    /\ UNCHANGED << cfgVars, ctxCancelled, cliVars, lifeVars, userVars,
                    exiterToOIDDownloader, blockQueuerToExiter,
                    exiterToShutdown, oidsVars, blockVars, wg, exiter, worker,
                    queuer, enqVars >>

\* -------------------------------------------------------- blockDownloader
\* a blockDownloader returns: the deferred bfs.wg.Done() (line 197)
WorkerExit(g, i) ==
    /\ worker' = [worker EXCEPT ![g][i].pc = "done"]
    /\ wg' = wg - 1

\* a blockDownloader that takes the newest id of oidsCh instead of the oldest
WorkerRecvLast(g, i) ==
    /\ worker[g][i].pc = "recv"
    /\ \/ /\ oidsCh # << >>
          /\ oidsCh' = SubSeq(oidsCh, 1, Len(oidsCh) - 1)
          /\ worker' = [worker EXCEPT ![g][i].pc = "get",
                                      ![g][i].item = oidsCh[Len(oidsCh)],
                                      ![g][i].reqCancelled = ctxCancelled]
          /\ UNCHANGED wg
       \/ /\ oidsCh = << >>
          /\ oidsClosed
          /\ worker' = [worker EXCEPT ![g][i].pc = "done"]
          /\ wg' = wg - 1
          /\ UNCHANGED oidsCh
    /\ UNCHANGED << cfgVars, ctxCancelled, cliVars, lifeVars, userVars,
                    quitVars, barriers, oidsClosed, emitted, blockVars,
                    exiter, disc, queuer, enqVars, panicked >>

\* blockDownloader, lines 199-203: receive the next id (range over oidsCh),
\* derive the request context from bfs.ctx and call objectGet; return when
\* the channel is closed and drained
WorkerRecv(g, i) ==
    /\ worker[g][i].pc = "recv"
    /\ \/ /\ oidsCh # << >>
          /\ oidsCh' = Tail(oidsCh)
          /\ worker' = [worker EXCEPT ![g][i].pc = "get",
                                      ![g][i].item = Head(oidsCh),
                                      ![g][i].reqCancelled = ctxCancelled]
          /\ UNCHANGED wg
       \/ /\ oidsCh = << >>
          /\ oidsClosed
          /\ WorkerExit(g, i)
          /\ UNCHANGED oidsCh
    /\ UNCHANGED << cfgVars, ctxCancelled, cliVars, lifeVars, userVars,
                    quitVars, barriers, oidsClosed, emitted, blockVars,
                    exiter, disc, queuer, enqVars, panicked >>

\* ------------------------------------------------------ errors of a request
\* An error value: canceled says whether errors.Is(err, context.Canceled)
\* holds, text is err.Error() as a sequence of words.
NoError          == [canceled |-> FALSE, text |-> << >>]
ErrCanceled      == [canceled |-> TRUE,  text |-> << "context", "canceled" >>]
ErrCanceledText  == [canceled |-> FALSE,
                     text |-> << "rpc", "error", "context", "canceled" >>]
ErrDeadline      == [canceled |-> FALSE,
                     text |-> << "context", "deadline", "exceeded" >>]
ErrOther         == [canceled |-> FALSE, text |-> << "object", "not", "found" >>]

\* strings.Contains(text, sub)
Contains(text, sub) ==
    \E k \in 0..(Len(text) - Len(sub)) :
        SubSeq(text, k + 1, k + Len(sub)) = sub

\* isContextCanceledErr without the strings.Contains of line 478
isContextCanceledErrIsOnly(err) == err.canceled

\* isContextCanceledErr, lines 476-479
isContextCanceledErr(err) ==
    err.canceled \/ Contains(err.text, << "context", "canceled" >>)

\* what objectGet followed by readBlock can return to a worker: on a
\* cancelled request context a cancellation error, as the SDK gives it or
\* as text only; on a closed client an error; otherwise the block, the
\* expiry of the request's timeout, or another failure of GET or decode
GetOutcomes(g, i) ==
    IF worker[g][i].reqCancelled THEN { ErrCanceled, ErrCanceledText }
    ELSE IF ~clientOpen THEN { ErrOther }
    ELSE { NoError, ErrDeadline, ErrOther }

\* blockDownloader, lines 203-221: objectGet and readBlock return.  A
\* cancellation error is a silent return; any other error goes on to
\* stopService(true) (failed records that it did not come from a closed
\* client); otherwise the block decoded from the stream, which carries the
\* Index the id stands for, is ready to be sent.
WorkerGetReturn(g, i) ==
    /\ worker[g][i].pc = "get"
    /\ \E err \in GetOutcomes(g, i) :
          IF err = NoError
          THEN /\ worker' = [worker EXCEPT ![g][i].pc = "send"]
               /\ UNCHANGED wg
          ELSE IF isContextCanceledErr(err)
          THEN WorkerExit(g, i)
          ELSE /\ worker' = [worker EXCEPT ![g][i].pc = "stop",
                                           ![g][i].failed = clientOpen]
               /\ UNCHANGED wg
    /\ UNCHANGED << cfgVars, ctxCancelled, cliVars, lifeVars, userVars,
                    quitVars, barriers, oidsVars, blockVars, exiter, disc,
                    queuer, enqVars, panicked >>

\* WorkerSend into a block channel that takes a block whatever it holds
WorkerSendNoCap(g, i) ==
    /\ worker[g][i].pc = "send"
    /\ \/ /\ ctxCancelled
          /\ WorkerExit(g, i)
          /\ UNCHANGED << blocksCh, panicked >>
       \/ /\ blocksClosed
          /\ panicked' = TRUE
          /\ UNCHANGED << worker, wg, blocksCh >>
       \/ /\ ~blocksClosed
          /\ blocksCh' = Append(blocksCh, worker[g][i].item)
          /\ worker' = [worker EXCEPT ![g][i].pc = "recv"]
          /\ UNCHANGED << wg, panicked >>
    /\ UNCHANGED << cfgVars, ctxCancelled, cliVars, lifeVars, userVars,
                    quitVars, barriers, oidsVars, blocksClosed, exiter, disc,
                    queuer, enqVars >>

\* blockDownloader, lines 222-226: the select on bfs.ctx.Done() and the send
\* into blocksCh; a send on a closed channel panics
WorkerSend(g, i) ==
    /\ worker[g][i].pc = "send"
    /\ \/ /\ ctxCancelled
          /\ WorkerExit(g, i)
          /\ UNCHANGED << blocksCh, panicked >>
       \/ /\ blocksClosed
          /\ panicked' = TRUE
          /\ UNCHANGED << worker, wg, blocksCh >>
       \/ /\ ~blocksClosed
          /\ Len(blocksCh) < BlocksCap
          /\ blocksCh' = Append(blocksCh, worker[g][i].item)
          /\ worker' = [worker EXCEPT ![g][i].pc = "recv"]
          /\ UNCHANGED << wg, panicked >>
    /\ UNCHANGED << cfgVars, ctxCancelled, cliVars, lifeVars, userVars,
                    quitVars, barriers, oidsVars, blocksClosed, exiter, disc,
                    queuer, enqVars >>

\* blockDownloader, lines 209 and 219: stopService(true), entering the Once
WorkerStop(g, i) ==
    /\ worker[g][i].pc = "stop"
    /\ \/ /\ StopOffer(TRUE)
          /\ worker' = [worker EXCEPT ![g][i].pc = "stop_send"]
          /\ UNCHANGED wg
       \/ /\ StopSkip
          /\ WorkerExit(g, i)
    /\ UNCHANGED << cfgVars, ctxCancelled, cliVars, lifeVars, userVars,
                    barriers, oidsVars, blockVars, exiter, disc, queuer,
                    enqVars, panicked >>

\* blockDownloader, lines 209-210 and 219-220: the send was received;
\* stopService and the goroutine return
WorkerStopped(g, i) ==
    /\ worker[g][i].pc = "stop_send"
    /\ StopFinish
    /\ WorkerExit(g, i)
    /\ UNCHANGED << cfgVars, ctxCancelled, cliVars, lifeVars, userVars,
                    barriers, oidsVars, blockVars, exiter, disc, queuer,
                    enqVars, panicked >>

\* ------------------------------------------------------------ blockQueuer
\* deferred close(bfs.blockQueuerToExiter) of blockQueuer (line 232)
QueuerExit(g) ==
    IF blockQueuerToExiter
    THEN /\ panicked' = TRUE
         /\ UNCHANGED << queuer, blockQueuerToExiter >>
    ELSE /\ blockQueuerToExiter' = TRUE
         /\ queuer' = [queuer EXCEPT ![g].pc = "done"]
         /\ UNCHANGED panicked

\* QueuerRecv without the case <-bfs.ctx.Done() of lines 235-237
QueuerRecvNoCtx(g) ==
    /\ queuer[g].pc = "recv"
    /\ \/ /\ blocksCh # << >>
          /\ blocksCh' = Tail(blocksCh)
          /\ IF FALSE
             THEN /\ QueuerExit(g)
                  /\ UNCHANGED enqVars
             ELSE /\ enqueued' = Append(enqueued, Head(blocksCh))
                  /\ inFlight' = inFlight + 1
                  /\ queuer' = [queuer EXCEPT ![g].pc = "enq",
                                              ![g].item = Head(blocksCh)]
                  /\ UNCHANGED << blockQueuerToExiter, panicked >>
       \/ /\ blocksCh = << >>
          /\ blocksClosed
          /\ QueuerExit(g)
          /\ UNCHANGED << blocksCh, enqVars >>
    /\ UNCHANGED << cfgVars, ctxCancelled, cliVars, lifeVars, userVars,
                    quitVars, exiterToOIDDownloader, oidDownloaderToExiter,
                    exiterToShutdown, oidsVars, blocksClosed, wg, exiter,
                    disc, worker >>

\* blockQueuer, lines 234-239: receive the next block (range over blocksCh);
\* return when bfs.ctx is done, otherwise call bfs.enqueueBlock(b); return
\* when the channel is closed and drained
QueuerRecv(g) ==
    /\ queuer[g].pc = "recv"
    /\ \/ /\ blocksCh # << >>
          /\ blocksCh' = Tail(blocksCh)
          /\ IF ctxCancelled
             THEN /\ QueuerExit(g)
                  /\ UNCHANGED enqVars
             ELSE /\ enqueued' = Append(enqueued, Head(blocksCh))
                  /\ inFlight' = inFlight + 1
                  /\ queuer' = [queuer EXCEPT ![g].pc = "enq",
                                              ![g].item = Head(blocksCh)]
                  /\ UNCHANGED << blockQueuerToExiter, panicked >>
       \/ /\ blocksCh = << >>
          /\ blocksClosed
          /\ QueuerExit(g)
          /\ UNCHANGED << blocksCh, enqVars >>
    /\ UNCHANGED << cfgVars, ctxCancelled, cliVars, lifeVars, userVars,
                    quitVars, exiterToOIDDownloader, oidDownloaderToExiter,
                    exiterToShutdown, oidsVars, blocksClosed, wg, exiter,
                    disc, worker >>

\* blockQueuer, lines 239-244: enqueueBlock returns nil or an error
QueuerEnqueueReturn(g) ==
    /\ queuer[g].pc = "enq"
    /\ inFlight' = inFlight - 1
    /\ \/ queuer' = [queuer EXCEPT ![g].pc = "recv"]
       \/ queuer' = [queuer EXCEPT ![g].pc = "stop", ![g].failed = TRUE]
    /\ UNCHANGED << cfgVars, ctxCancelled, cliVars, lifeVars, userVars,
                    quitVars, barriers, oidsVars, blockVars, wg, exiter, disc,
                    worker, enqueued, panicked >>

\* blockQueuer, line 242: stopService(true), entering the Once
QueuerStop(g) ==
    /\ queuer[g].pc = "stop"
    /\ \/ /\ StopOffer(TRUE)
          /\ queuer' = [queuer EXCEPT ![g].pc = "stop_send"]
          /\ UNCHANGED << blockQueuerToExiter, panicked >>
       \/ /\ StopSkip
          /\ QueuerExit(g)
    /\ UNCHANGED << cfgVars, ctxCancelled, cliVars, lifeVars, userVars,
                    exiterToOIDDownloader, oidDownloaderToExiter,
                    exiterToShutdown, oidsVars, blockVars, wg, exiter, disc,
                    worker, enqVars >>

\* blockQueuer, lines 242-243: the send was received; stopService and the
\* goroutine return
QueuerStopped(g) ==
    /\ queuer[g].pc = "stop_send"
    /\ StopFinish
    /\ QueuerExit(g)
    /\ UNCHANGED << cfgVars, ctxCancelled, cliVars, lifeVars, userVars,
                    exiterToOIDDownloader, oidDownloaderToExiter,
                    exiterToShutdown, oidsVars, blockVars, wg, exiter, disc,
                    worker, enqVars >>

\* ----------------------------------------------------------------- exiter
ExiterAt(g, pc) == exiter[g].pc = pc
ExiterGoto(g, pc) == exiter' = [exiter EXCEPT ![g].pc = pc]

\* bfs.ctxCancel(): the cancellation reaches the root context and every
\* request context derived from it
CtxCancel ==
    /\ ctxCancelled' = TRUE
    /\ worker' = [h \in Gens |-> [i \in Workers |->
                    IF worker[h][i].pc = "get"
                    THEN [worker[h][i] EXCEPT !.reqCancelled = TRUE]
                    ELSE worker[h][i]]]

\* exiter, lines 416-425: force := <-bfs.quit; if force { bfs.ctxCancel() }.
\* The receive meets the blocked sender, or yields the zero value when the
\* channel is closed.
ExiterQuit(g) ==
    /\ ExiterAt(g, "quit")
    /\ \/ /\ quit = "offered"
          /\ quit' = "taken"
          /\ exiter' = [exiter EXCEPT ![g] = [pc |-> "stopOID", force |-> quitVal]]
          /\ IF quitVal THEN CtxCancel ELSE UNCHANGED << ctxCancelled, worker >>
       \/ /\ quit = "closed"
          /\ exiter' = [exiter EXCEPT ![g] = [pc |-> "stopOID", force |-> FALSE]]
          /\ UNCHANGED << quit, ctxCancelled, worker >>
    /\ UNCHANGED << cfgVars, cliVars, lifeVars, userVars, quitVal, quitOnce,
                    barriers, oidsVars, blockVars, wg, disc, queuer, enqVars,
                    panicked >>

\* exiter, line 429: close(bfs.exiterToOIDDownloader)
ExiterStopOID(g) ==
    /\ ExiterAt(g, "stopOID")
    /\ IF exiterToOIDDownloader
       THEN /\ panicked' = TRUE
            /\ UNCHANGED << exiter, exiterToOIDDownloader >>
       ELSE /\ exiterToOIDDownloader' = TRUE
            /\ ExiterGoto(g, "waitOID")
            /\ UNCHANGED panicked
    /\ UNCHANGED << cfgVars, ctxCancelled, cliVars, lifeVars, userVars,
                    quitVars, oidDownloaderToExiter, blockQueuerToExiter,
                    exiterToShutdown, oidsVars, blockVars, wg, disc, worker,
                    queuer, enqVars >>

\* an exiter that does not wait for the oidDownloader to return
ExiterNoWaitOID(g) ==
    /\ exiter[g].pc = "waitOID"
    /\ exiter' = [exiter EXCEPT ![g].pc = "closeOids"]
    /\ UNCHANGED << cfgVars, ctxCancelled, cliVars, lifeVars, userVars,
                    quitVars, barriers, oidsVars, blockVars, wg, disc, worker,
                    queuer, enqVars, panicked >>

\* exiter, line 430: <-bfs.oidDownloaderToExiter
ExiterWaitOID(g) ==
    /\ ExiterAt(g, "waitOID")
    /\ oidDownloaderToExiter
    /\ ExiterGoto(g, "closeOids")
    /\ UNCHANGED << cfgVars, ctxCancelled, cliVars, lifeVars, userVars,
                    quitVars, barriers, oidsVars, blockVars, wg, disc, worker,
                    queuer, enqVars, panicked >>

\* exiter, line 434: close(bfs.oidsCh)
ExiterCloseOids(g) ==
    /\ ExiterAt(g, "closeOids")
    /\ IF oidsClosed
       THEN /\ panicked' = TRUE
            /\ UNCHANGED << exiter, oidsClosed >>
       ELSE /\ oidsClosed' = TRUE
            /\ ExiterGoto(g, "wgWait")
            /\ UNCHANGED panicked
    /\ UNCHANGED << cfgVars, ctxCancelled, cliVars, lifeVars, userVars,
                    quitVars, barriers, oidsCh, emitted, blockVars, wg, disc,
                    worker, queuer, enqVars >>

\* exiter, line 435: bfs.wg.Wait() returns when the counter is zero
ExiterWgWait(g) ==
    /\ ExiterAt(g, "wgWait")
    /\ wg = 0
    /\ ExiterGoto(g, "closeBlocks")
    /\ UNCHANGED << cfgVars, ctxCancelled, cliVars, lifeVars, userVars,
                    quitVars, barriers, oidsVars, blockVars, wg, disc, worker,
                    queuer, enqVars, panicked >>

\* exiter, line 438: close(bfs.blocksCh)
ExiterCloseBlocks(g) ==
    /\ ExiterAt(g, "closeBlocks")
    /\ IF blocksClosed
       THEN /\ panicked' = TRUE
            /\ UNCHANGED << exiter, blocksClosed >>
       ELSE /\ blocksClosed' = TRUE
            /\ ExiterGoto(g, "waitQueuer")
            /\ UNCHANGED panicked
    /\ UNCHANGED << cfgVars, ctxCancelled, cliVars, lifeVars, userVars,
                    quitVars, barriers, oidsVars, blocksCh, wg, disc, worker,
                    queuer, enqVars >>

\* an exiter that does not wait for the blockQueuer to return
ExiterNoWaitQueuer(g) ==
    /\ exiter[g].pc = "waitQueuer"
    /\ exiter' = [exiter EXCEPT ![g].pc = "release"]
    /\ UNCHANGED << cfgVars, ctxCancelled, cliVars, lifeVars, userVars,
                    quitVars, barriers, oidsVars, blockVars, wg, disc, worker,
                    queuer, enqVars, panicked >>

\* exiter, line 439: <-bfs.blockQueuerToExiter
ExiterWaitQueuer(g) ==
    /\ ExiterAt(g, "waitQueuer")
    /\ blockQueuerToExiter
    /\ ExiterGoto(g, "release")
    /\ UNCHANGED << cfgVars, ctxCancelled, cliVars, lifeVars, userVars,
                    quitVars, barriers, oidsVars, blockVars, wg, disc, worker,
                    queuer, enqVars, panicked >>

\* exiter, lines 443-444: bfs.client.Close(); bfs.log.Sync()
ExiterRelease(g) ==
    /\ ExiterAt(g, "release")
    /\ clientOpen' = FALSE
    /\ clientCloses' = clientCloses + 1
    /\ ExiterGoto(g, "cas")
    /\ UNCHANGED << cfgVars, ctxCancelled, lifeVars, userVars, quitVars,
                    barriers, oidsVars, blockVars, wg, disc, worker, queuer,
                    enqVars, panicked >>

\* ExiterDeactivate with a CompareAndSwap that leaves the flag set
ExiterNoDeactivate(g) ==
    /\ ExiterAt(g, "cas")
    /\ isActive' = isActive
    /\ ExiterGoto(g, "callback")
    /\ UNCHANGED << cfgVars, ctxCancelled, cliVars, gen, callbacks, userVars,
                    quitVars, barriers, oidsVars, blockVars, wg, disc, worker,
                    queuer, enqVars, panicked >>

\* exiter, line 445: bfs.isActive.CompareAndSwap(true, false)
ExiterDeactivate(g) ==
    /\ ExiterAt(g, "cas")
    /\ isActive' = FALSE
    /\ ExiterGoto(g, "callback")
    /\ UNCHANGED << cfgVars, ctxCancelled, cliVars, gen, callbacks, userVars,
                    quitVars, barriers, oidsVars, blockVars, wg, disc, worker,
                    queuer, enqVars, panicked >>

\* exiter, line 446: bfs.shutdownCallback()
ExiterCallback(g) ==
    /\ ExiterAt(g, "callback")
    /\ callbacks' = callbacks + 1
    /\ ExiterGoto(g, "closeShutdown")
    /\ UNCHANGED << cfgVars, ctxCancelled, cliVars, isActive, gen, userVars,
                    quitVars, barriers, oidsVars, blockVars, wg, disc, worker,
                    queuer, enqVars, panicked >>

\* exiter, line 449: close(bfs.exiterToShutdown)
ExiterCloseShutdown(g) ==
    /\ ExiterAt(g, "closeShutdown")
    /\ IF exiterToShutdown
       THEN /\ panicked' = TRUE
            /\ UNCHANGED << exiter, exiterToShutdown >>
       ELSE /\ exiterToShutdown' = TRUE
            /\ ExiterGoto(g, "done")
            /\ UNCHANGED panicked
    /\ UNCHANGED << cfgVars, ctxCancelled, cliVars, lifeVars, userVars,
                    quitVars, exiterToOIDDownloader, oidDownloaderToExiter,
                    blockQueuerToExiter, oidsVars, blockVars, wg, disc,
                    worker, queuer, enqVars >>

\* ------------------------------------------------------------------- Next
\* steps of the callers
StartNext ==
    \E u \in Users :
        \/ StartCAS(u)
        \/ StartClient(u)
        \/ StartBlockDownloader(u)
        \/ StartBlockQueuer(u)

ShutdownNext ==
    \E u \in Stoppers :
        \/ ShutdownCall(u)
        \/ ShutdownStop(u)
        \/ ShutdownStopped(u)
        \/ ShutdownWait(u)
        \/ ShutdownReturn(u)

\* steps of the goroutines of generation g
OidDownloaderNext(g) ==
    \/ OidDownloaderStart(g)
    \/ FetchLoop(g)
    \/ StreamRead(g)
    \/ EmitOID(g)
    \/ OidDownloaderStop(g)
    \/ OidDownloaderStopped(g)

BlockDownloaderNext(g, i) ==
    \/ WorkerRecv(g, i)
    \/ WorkerGetReturn(g, i)
    \/ WorkerSend(g, i)
    \/ WorkerStop(g, i)
    \/ WorkerStopped(g, i)

BlockQueuerNext(g) ==
    \/ QueuerRecv(g)
    \/ QueuerEnqueueReturn(g)
    \/ QueuerStop(g)
    \/ QueuerStopped(g)

ExiterNext(g) ==
    \/ ExiterQuit(g)
    \/ ExiterStopOID(g)
    \/ ExiterWaitOID(g)
    \/ ExiterCloseOids(g)
    \/ ExiterWgWait(g)
    \/ ExiterCloseBlocks(g)
    \/ ExiterWaitQueuer(g)
    \/ ExiterRelease(g)
    \/ ExiterDeactivate(g)
    \/ ExiterCallback(g)
    \/ ExiterCloseShutdown(g)

\* The callers keep to the single-use lifecycle of the service: Start is not
\* called on a service that has been started and torn down.
SingleUse == gen = 0 \/ isActive

GoroutineNext ==
    \/ \E g \in Gens : OidDownloaderNext(g)
    \/ \E g \in Gens : \E i \in Workers : BlockDownloaderNext(g, i)
    \/ \E g \in Gens : BlockQueuerNext(g)
    \/ \E g \in Gens : ExiterNext(g)

Next ==
    /\ ~panicked
    /\ \/ SingleUse /\ StartNext
       \/ ShutdownNext
       \/ GoroutineNext

Spec == Init /\ [][Next]_vars

\* The same service with callers that may call Start at any time, also
\* after a teardown, run with a single block downloader.
InitRestart == Init /\ cfg.DownloaderWorkersCount = 1

NextRestart ==
    /\ ~panicked
    /\ \/ StartNext
       \/ ShutdownNext
       \/ GoroutineNext

SpecRestart == InitRestart /\ [][NextRestart]_vars

\* The discovery is examined on a service with one worker, over storages
\* with the index objects IndexFiles of which at most one is malformed, with
\* ledger heights that fall in every index object and past the last one,
\* and with SEARCH batches of more than one id.
DiscoveryHeight == Cardinality(IndexFiles) * IndexFileSize

DiscoveryStores ==
    { st \in [ blocks : {MaxBlocks}, files : {Cardinality(IndexFiles)},
               bad : {-1} \cup IndexFiles, shape : Shapes ] :
        (st.bad = -1) <=> (st.shape = "exact") }

InitDiscovery ==
    /\ cfg \in [ DownloaderWorkersCount : {1},
                 OIDBatchSize : {OIDBatchSize + 1},
                 IndexFileSize : {IndexFileSize},
                 SkipIndexFilesSearch : BOOLEAN ]
    /\ chainHeight \in 0..DiscoveryHeight
    /\ store \in DiscoveryStores
    /\ cfg.SkipIndexFilesSearch => store.bad = -1
    /\ constructed = "ok"
    /\ Fresh

SpecDiscovery == InitDiscovery /\ [][Next]_vars

\* The backpressure is examined on a service with one worker, over a
\* storage that holds one block more than 2*OIDBatchSize + 1 + OIDBatchSize
\* + 1, and the index objects for as many of them as fill whole objects
BackpressureBlocks == 3 * OIDBatchSize + 3

InitBackpressure ==
    /\ cfg \in [ DownloaderWorkersCount : {1},
                 OIDBatchSize : {OIDBatchSize},
                 IndexFileSize : {IndexFileSize},
                 SkipIndexFilesSearch : BOOLEAN ]
    /\ chainHeight = 0
    /\ store = [blocks |-> BackpressureBlocks,
                files |-> BackpressureBlocks \div IndexFileSize,
                bad |-> -1, shape |-> "exact"]
    /\ constructed = "ok"
    /\ Fresh

SpecBackpressure == InitBackpressure /\ [][Next]_vars

\* The ledger grows while the discoverer runs (the blocks enqueued, or
\* blocks from the peers, are added to it): chain.BlockHeight() returns one
\* more.  Growth before the discoverer is launched is a higher initial
\* height, and growth after its fetch function returned is seen by no one.
LedgerTop == MaxHeight + IndexFileSize

LedgerAdvance ==
    /\ chainHeight < LedgerTop
    /\ \E g \in Gens : disc[g].pc \in {"start", "loop", "stream", "emit"}
    /\ chainHeight' = chainHeight + 1
    /\ UNCHANGED << cfg, store, constructed, ctxCancelled, cliVars, lifeVars,
                    userVars, quitVars, barriers, oidsVars, blockVars, wg,
                    exiter, disc, worker, queuer, enqVars, panicked >>

\* The service with one worker over a well-formed storage, with batches of
\* more than one id, beside a ledger that grows
InitLedger ==
    /\ cfg \in [ DownloaderWorkersCount : {1},
                 OIDBatchSize : {OIDBatchSize + 1},
                 IndexFileSize : {IndexFileSize},
                 SkipIndexFilesSearch : BOOLEAN ]
    /\ chainHeight \in 0..MaxHeight
    /\ store = [blocks |-> LedgerTop + 2,
                files |-> (LedgerTop + 2) \div IndexFileSize,
                bad |-> -1, shape |-> "exact"]
    /\ constructed = "ok"
    /\ Fresh

NextLedger ==
    /\ ~panicked
    /\ \/ SingleUse /\ StartNext
       \/ ShutdownNext
       \/ GoroutineNext
       \/ LedgerAdvance

SpecLedger == InitLedger /\ [][NextLedger]_vars

\* New and then the service it returns, with one worker, over the
\* configurations that select either strategy with or without an
\* IndexFileSize and with or without an address
InitUnvalidated ==
    /\ cfg \in { c \in RawConfigs :
                    /\ c.WalletOK
                    /\ c.Timeout = MaxRaw
                    /\ c.OIDBatchSize = OIDBatchSize
                    /\ c.DownloaderWorkersCount = 1 }
    /\ chainHeight \in 0..MaxHeight
    /\ store = [blocks |-> MaxBlocks, files |-> MaxBlocks \div IndexFileSize,
                bad |-> -1, shape |-> "exact"]
    /\ constructed = "no"
    /\ Fresh

\* the methods of a Service are called once New has returned it
NextUnvalidated ==
    /\ ~panicked
    /\ \/ New
       \/ constructed = "ok" /\ SingleUse /\ StartNext
       \/ constructed = "ok" /\ ShutdownNext
       \/ constructed = "ok" /\ GoroutineNext

SpecUnvalidated == InitUnvalidated /\ [][NextUnvalidated]_vars

\* New alone, over the configurations it may be handed
InitNew ==
    /\ cfg \in RawConfigs
    /\ chainHeight = 0
    /\ store = [blocks |-> MaxBlocks, files |-> MaxBlocks \div IndexFileSize,
                bad |-> -1, shape |-> "exact"]
    /\ constructed = "no"
    /\ Fresh

SpecNew == InitNew /\ [][New]_vars

\* ------------------------------------------------------- claim vocabulary
\* some Start call has launched the whole pipeline and returned nil
StartSucceeded == \E g \in Gens : queuer[g].pc # "none"

\* the Shutdown call of u returns in this step
ShutdownReturns(u) == userPc[u] # "sh_ret" /\ userPc'[u] = "sh_ret"

\* the Shutdown call of u found the service active and has not returned
ShutdownPending(u) == userPc[u] \in {"sh_stop", "sh_send", "sh_wait"}

\* every step other than a caller entering Start or Shutdown: what the
\* scheduler alone can make happen
Progress ==
    \/ GoroutineNext
    \/ \E u \in Users : \/ StartClient(u)
                        \/ StartBlockDownloader(u)
                        \/ StartBlockQueuer(u)
    \/ \E u \in Stoppers : \/ ShutdownStop(u)
                           \/ ShutdownStopped(u)
                           \/ ShutdownWait(u)
                           \/ ShutdownReturn(u)

\* no SEARCH, GET, decode or enqueue call has failed on its own
NoFault ==
    /\ \A g \in Gens : ~disc[g].err /\ ~queuer[g].failed
    /\ \A g \in Gens : \A i \in Workers : ~worker[g][i].failed

Range(s) == { s[k] : k \in DOMAIN s }
Count(s, x) == Cardinality({ k \in DOMAIN s : s[k] = x })
StrictlyIncreasing(s) == \A k \in DOMAIN s : k > 1 => s[k - 1] < s[k]

\* the exiter of generation g has received from quit
TeardownBegun(g) == exiter[g].pc \notin {"none", "quit"}
TeardownComplete(g) == exiter[g].pc = "done"

\* ----------------------------------------------------------------- claims
\* C1: after Start has succeeded, whenever a call to Shutdown returns,
\* IsActive() is false and the shutdown callback has been invoked exactly
\* once.
C1_ShutdownReturnsTornDown ==
    [][ \A u \in Stoppers :
            (StartSucceeded /\ ShutdownReturns(u))
                => (~isActive' /\ callbacks' = 1) ]_vars

\* the number of tasks blocked in the send of stopService (inside the Once)
QuitSenders ==
    Cardinality({ u \in Stoppers : userPc[u] = "sh_send" })
    + Cardinality({ g \in Gens : disc[g].pc = "stop_send" })
    + Cardinality({ g \in Gens : queuer[g].pc = "stop_send" })
    + Cardinality({ x \in Gens \X Workers :
                       worker[x[1]][x[2]].pc = "stop_send" })

C3_ShutdownNeverStuck ==
    \A u \in Stoppers : ShutdownPending(u) => (panicked \/ ENABLED Progress)

\* C4: for every Shutdown call that finds IsActive() true, the root context
\* has been cancelled by the time the call returns.
C4_ShutdownCancelsContext ==
    [][ \A u \in Stoppers :
            (userPc[u] = "sh_wait" /\ userPc'[u] = "sh_ret")
                => ctxCancelled' ]_vars

\* C5: if no error is injected and the user does not call Shutdown, then
\* when the teardown is complete enqueueBlock has been called exactly once
\* for the block of each id the discoverer emitted, and for nothing else.
C5_NoLossNoDuplication ==
    (TeardownComplete(1) /\ NoFault /\ ~shutdownCalled)
        => \A x \in Range(emitted) \cup Range(enqueued) :
               Count(enqueued, x) = 1 /\ Count(emitted, x) = 1

\* C6: the root context is cancelled only on forced teardown: when the
\* exiter read true the context is cancelled before the stop-discovery
\* barrier is closed; when it read false the context is not cancelled during
\* the teardown, and the block of every id a worker has taken is enqueued by
\* the time the teardown is complete (no call failing on its own).
C6_CancelOnlyOnForce ==
    /\ (TeardownBegun(1) /\ exiter[1].force /\ exiterToOIDDownloader)
          => ctxCancelled
    /\ (TeardownBegun(1) /\ ~exiter[1].force) => ~ctxCancelled
    /\ (TeardownBegun(1) /\ ~exiter[1].force /\ NoFault) =>
          /\ ~panicked
          /\ TeardownComplete(1) =>
                (Range(emitted) \ Range(oidsCh)) \subseteq Range(enqueued)

\* C7: if the discoverer emits ids in ascending block-Index order, the
\* sequence of Index values passed to enqueueBlock is strictly increasing,
\* for every worker count.
C7_AscendingOrder ==
    StrictlyIncreasing(emitted) => StrictlyIncreasing(enqueued)

\* C7, one worker: with a single block downloader the sequence of Index values
\* passed to enqueueBlock is strictly increasing when the emitted ids are.
C7_AscendingOrderOneWorker ==
    (cfg.DownloaderWorkersCount = 1 /\ StrictlyIncreasing(emitted))
        => StrictlyIncreasing(enqueued)

\* C7, witness: a single worker has carried three blocks to enqueueBlock
C7_Witness ==
    /\ cfg.DownloaderWorkersCount = 1
    /\ Len(enqueued) = 3
    /\ TeardownComplete(1)

\* C8: at most one call to enqueueBlock is in flight at any instant, and the
\* call in flight is the one of the single blockQueuer that is inside
\* enqueueBlock, also when Start is called again after a teardown.
C8_SingleEnqueuer ==
    /\ inFlight <= 1
    /\ inFlight = Cardinality({ g \in Gens : queuer[g].pc = "enq" })

\* C8, witness: after a second successful Start the blockQueuer it launched
\* is inside enqueueBlock
C8_Witness == gen = 2 /\ queuer[2].pc = "enq" /\ inFlight = 1

\* C9: when enqueueBlock returns an error, a forced teardown follows and the
\* service reaches IsActive() = false with the shutdown callback invoked.
\* Refutable on a finite run: once the blockQueuer has returned after the
\* error, the exiter has read force = true, and until the callback has been
\* invoked the process has not come to a halt.
C9_EnqueueErrorTearsDown ==
    \A g \in Gens :
        (queuer[g].failed /\ queuer[g].pc = "done") =>
            /\ exiter[g].force
            /\ \/ ~isActive /\ callbacks = 1
               \/ panicked
               \/ ENABLED Progress

\* C10: the teardown events occur in this order: stop-discovery barrier
\* closed, discoverer returned, id channel closed, block channel closed,
\* enqueuer returned, client closed, Active set to false, callback invoked,
\* shutdown-complete barrier closed; and IsActive() stays true until the
\* discoverer and the enqueuer have returned.
C10_TeardownOrder ==
    /\ disc[1].pc = "done" => exiterToOIDDownloader
    /\ oidsClosed => disc[1].pc = "done"
    /\ blocksClosed => oidsClosed
    /\ queuer[1].pc = "done" => blocksClosed
    /\ clientCloses > 0 => queuer[1].pc = "done"
    /\ (gen >= 1 /\ ~isActive) => clientCloses > 0
    /\ callbacks > 0 => (gen >= 1 /\ ~isActive)
    /\ exiterToShutdown => callbacks > 0
    /\ (gen >= 1 /\ ~isActive)
          => (disc[1].pc = "done" /\ queuer[1].pc = "done")

\* C10, the exiter's view: the exiter's own steps occur in this order: stop-discovery
\* barrier closed, the discoverer's return observed, id channel closed,
\* block channel closed, the enqueuer's return observed, client closed,
\* Active set to false, callback invoked, shutdown-complete barrier closed.
\* The id channel is closed only after the discoverer has returned (the
\* discoverer and the enqueuer themselves may return before the exiter
\* closes the barrier or channel that precedes them in the list), and
\* IsActive() stays true until both have returned.
C10_ExiterOrder ==
    /\ oidsClosed => (exiterToOIDDownloader /\ oidDownloaderToExiter)
    /\ oidDownloaderToExiter <=> disc[1].pc = "done"
    /\ blocksClosed => oidsClosed
    /\ clientCloses > 0 => (blocksClosed /\ blockQueuerToExiter)
    /\ blockQueuerToExiter <=> queuer[1].pc = "done"
    /\ (gen >= 1 /\ ~isActive) => clientCloses > 0
    /\ callbacks > 0 => (gen >= 1 /\ ~isActive)
    /\ exiterToShutdown => callbacks > 0
    /\ (gen >= 1 /\ ~isActive)
          => (disc[1].pc = "done" /\ queuer[1].pc = "done")
    /\ \A g \in Gens : disc[g].pc = "emit" => ~oidsClosed

\* C10, witness: the teardown is complete, and the enqueuer had returned on
\* its own (an enqueue error) before the block channel was closed
C10_Witness ==
    TeardownComplete(1) /\ queuer[1].failed /\ callbacks = 1

\* the block downloaders of generation g that Start has launched so far
LaunchedWorkers(g) == { i \in Workers : worker[g][i].pc # "none" }

\* C11: the block channel is closed only after every one of the
\* DownloaderWorkersCount workers has returned, so no worker is ever about
\* to send on a closed block channel.
C11_BlocksClosedAfterWorkers ==
    blocksClosed =>
        /\ \A i \in 1..cfg.DownloaderWorkersCount : worker[1][i].pc = "done"
        /\ \A g \in Gens : \A i \in Workers : worker[g][i].pc # "send"

\* C12: of two Start calls running concurrently on a fresh service exactly
\* one initializes: one call at a time is past the CompareAndSwap, one
\* exiter and one discoverer are launched, never more than
\* DownloaderWorkersCount workers, and exactly that many workers and one
\* enqueuer once Start has returned.
C12_OneInitialization ==
    /\ Cardinality({ u \in Users : userPc[u] \in {"s_client", "s_workers"} }) <= 1
    /\ gen <= 1
    /\ exiter[2].pc = "none" /\ disc[2].pc = "none" /\ queuer[2].pc = "none"
    /\ LaunchedWorkers(2) = {}
    /\ Cardinality(LaunchedWorkers(1)) <= cfg.DownloaderWorkersCount
    /\ wg <= cfg.DownloaderWorkersCount
    /\ StartSucceeded =>
          /\ exiter[1].pc # "none" /\ disc[1].pc # "none"
          /\ LaunchedWorkers(1) = 1..cfg.DownloaderWorkersCount

\* C12, witness: one caller's Start is launching the second of two workers
\* while the other caller is free to call Start on the active service
C12_Witness ==
    \E u \in Users : \E v \in Users \ {u} :
        /\ userPc[u] = "s_workers" /\ launched = 1
        /\ cfg.DownloaderWorkersCount = 2
        /\ userPc[v] = "idle" /\ isActive

\* C13: once a teardown has completed, a Start call launches no new exiter,
\* discoverer, worker or enqueuer, closes no barrier or channel a second
\* time and causes no second shutdown-callback invocation.
C13_NoRestart ==
    /\ gen <= 1
    /\ exiter[2].pc = "none" /\ disc[2].pc = "none" /\ queuer[2].pc = "none"
    /\ LaunchedWorkers(2) = {}
    /\ ~(panicked /\ exiter[2].pc = "stopOID")
    /\ callbacks <= 1

\* C14: when the client creation fails in Start, Start returns with
\* IsActive() false, no exiter, discoverer, worker or enqueuer is launched
\* and the shutdown callback is not invoked: as long as no Start has
\* created its client, no goroutine exists, nothing has been released or
\* called back, and the flag is set only while a Start call is between its
\* CompareAndSwap and the outcome of the client creation.
C14_FailedStartLaunchesNothing ==
    gen = 0 =>
        /\ \A g \in Gens :
              /\ exiter[g].pc = "none" /\ disc[g].pc = "none"
              /\ queuer[g].pc = "none" /\ LaunchedWorkers(g) = {}
        /\ wg = 0 /\ callbacks = 0 /\ clientCloses = 0 /\ ~clientOpen
        /\ isActive <=> (\E u \in Users : userPc[u] = "s_client")

\* C14, witness: a Start call has failed and returned: a Shutdown call saw
\* the flag set by it, and now the flag is clear with no client ever created
C14_Witness ==
    /\ gen = 0 /\ ~isActive /\ shutdownCalled
    /\ \A u \in Users : userPc[u] # "s_client"

\* ---------------------------------------------------------------- discovery
IsPrefix(a, b) == Len(a) <= Len(b) /\ SubSeq(b, 1, Len(a)) = a

\* the fetch function of generation g has returned nil before any teardown
\* was requested of the exiter: the discovery ran to its normal end
NaturalEnd(g) ==
    disc[g].pc = "stop" /\ ~disc[g].err /\ ~TeardownBegun(g)

\* payloads of the index objects i, i+1, ... of the storage, in order
RECURSIVE ObjectsFrom(_)
ObjectsFrom(i) ==
    IF i < NumIndexFiles THEN IndexObject(i) \o ObjectsFrom(i + 1) ELSE << >>

\* what the index files hold for a ledger of height chainHeight = k*S + r:
\* object k without its first r ids, then objects k+1, k+2, ... whole
ExpectedFromIndexFiles ==
    LET all == ObjectsFrom(chainHeight \div IndexFileSize)
        r   == chainHeight % IndexFileSize
    IN  SubSeq(all, r + 1, Len(all))

\* C15: index-file discovery over well-formed index objects, with ledger
\* height h = k*S + r, starts at index object k, discards the first r ids of
\* that object only, emits the ids that follow in object order with nothing
\* skipped in the later objects, and ends normally at the first index for
\* which no object is found, having emitted all of them.
C15_IndexFileDiscovery ==
    (~cfg.SkipIndexFilesSearch /\ store.bad = -1 /\ disc[1].pc \notin {"none", "start"}) =>
        LET k == chainHeight \div IndexFileSize
            r == chainHeight % IndexFileSize
        IN  /\ disc[1].startIndex >= k
            /\ disc[1].skip = IF disc[1].startIndex = k THEN r ELSE 0
            /\ IsPrefix(emitted, ExpectedFromIndexFiles)
            /\ disc[1].pc = "emit" =>
                   /\ disc[1].processed >= disc[1].skip
                   /\ Head(disc[1].batch)
                        = disc[1].startIndex * IndexFileSize + disc[1].processed
            /\ NaturalEnd(1) =>
                   /\ emitted = ExpectedFromIndexFiles
                   /\ disc[1].startIndex = IF k < NumIndexFiles
                                           THEN NumIndexFiles ELSE k

C15_Witness ==
    /\ ~cfg.SkipIndexFilesSearch /\ store.bad = -1
    /\ chainHeight % IndexFileSize > 0
    /\ chainHeight \div IndexFileSize + 1 < NumIndexFiles
    /\ NaturalEnd(1)
    /\ Len(emitted) = NumIndexFiles * IndexFileSize - chainHeight
    /\ disc[1].startIndex = NumIndexFiles

\* C16: with a malformed index object in the storage (one id short, one id
\* long, or ending in a partial id), the discovery that started at or before
\* that object never goes past it, unless the stop barrier was closed while
\* it was emitting: it never ends normally.  Once the discoverer holds an
\* error, every teardown is a forced one with the context cancelled, nothing
\* panics, and the service keeps moving until the teardown is complete with
\* isActive false and the shutdown callback invoked once.
C16_MalformedIndexObjectFatal ==
    (~cfg.SkipIndexFilesSearch /\ store.bad # -1) =>
        /\ ( /\ disc[1].pc \notin {"none", "start"}
             /\ chainHeight \div IndexFileSize <= store.bad
             /\ disc[1].startIndex > store.bad ) => exiterToOIDDownloader
        /\ chainHeight \div IndexFileSize <= store.bad => ~NaturalEnd(1)
        /\ disc[1].err =>
               /\ ~panicked
               /\ TeardownBegun(1) => exiter[1].force /\ ctxCancelled
               /\ \/ ENABLED Progress
                  \/ TeardownComplete(1) /\ ~isActive /\ callbacks = 1

C16_Witness ==
    /\ ~cfg.SkipIndexFilesSearch /\ store.shape = "long"
    /\ disc[1].err /\ disc[1].processed = IndexFileSize + 1
    /\ exiter[1].force /\ ctxCancelled
    /\ TeardownComplete(1) /\ ~isActive /\ callbacks = 1

\* result of the j-th SEARCH (j = 0, 1, ...) of a direct-search discovery
\* that issues it with the bounds h + j*B and h + (j+1)*B - 1
SearchResultOf(j) ==
    SearchRange(chainHeight + j * cfg.OIDBatchSize,
                chainHeight + (j + 1) * cfg.OIDBatchSize - 1)

\* results of the SEARCHes 0..j-1, one after the other
RECURSIVE ResultsBefore(_)
ResultsBefore(j) ==
    IF j = 0 THEN << >> ELSE ResultsBefore(j - 1) \o SearchResultOf(j - 1)

\* C17: direct-search discovery with ledger height h and batch size B is at
\* its j-th SEARCH with lower bound h + j*B; what it emits of that SEARCH is
\* the result for the bounds h + j*B and h + (j+1)*B - 1, in order; all that
\* was emitted is the results of the SEARCHes before, one after the other,
\* followed by the emitted part of the current one; and it ends normally at
\* the first SEARCH that returns no id, all earlier results emitted.
C17_DirectSearchBounds ==
    (cfg.SkipIndexFilesSearch /\ disc[1].pc \notin {"none", "start"}) =>
        LET d == disc[1]
            j == (d.startIndex - chainHeight) \div cfg.OIDBatchSize
            sent == Len(SearchResultOf(j)) - Len(d.batch)
        IN  /\ d.startIndex >= chainHeight
            /\ d.startIndex = chainHeight + j * cfg.OIDBatchSize
            /\ d.pc = "emit" =>
                   /\ d.batch # << >>
                   /\ sent >= 0
                   /\ d.batch = SubSeq(SearchResultOf(j), sent + 1,
                                       Len(SearchResultOf(j)))
                   /\ emitted = ResultsBefore(j)
                                  \o SubSeq(SearchResultOf(j), 1, sent)
            /\ d.pc = "loop" => emitted = ResultsBefore(j)
            /\ IsPrefix(ResultsBefore(j), emitted)
            /\ IsPrefix(emitted, ResultsBefore(j + 1))
            /\ NaturalEnd(1) =>
                   /\ SearchResultOf(j) = << >>
                   /\ \A i \in 0..(j - 1) : SearchResultOf(i) # << >>
                   /\ emitted = ResultsBefore(j)

C17_Witness ==
    /\ cfg.SkipIndexFilesSearch
    /\ NaturalEnd(1)
    /\ disc[1].startIndex = chainHeight + 2 * cfg.OIDBatchSize
    /\ cfg.OIDBatchSize > 1
    /\ Len(emitted) > cfg.OIDBatchSize

\* -------------------------------------------------------------- the channels
\* ids held by the workers between the receive from oidsCh and the send
\* into blocksCh
HeldBy(x) ==
    Cardinality({ i \in Workers :
                    worker[1][i].pc \in {"get", "send"} /\ worker[1][i].item = x })

\* C18: the id channel never holds more than 2*OIDBatchSize ids and the
\* block channel never more than OIDBatchSize blocks; the id channel holds
\* the last ids emitted, in order; no id is in more than one place among the
\* id channel, the workers, the block channel and what was handed to
\* enqueueBlock; and a discoverer at a full id channel, or a worker at a
\* full block channel, has no step unless the teardown gives it one.
C18_ChannelCapacities ==
    /\ Len(oidsCh) <= 2 * cfg.OIDBatchSize
    /\ Len(blocksCh) <= cfg.OIDBatchSize
    /\ Len(oidsCh) <= Len(emitted)
    /\ oidsCh = SubSeq(emitted, Len(emitted) - Len(oidsCh) + 1, Len(emitted))
    /\ Range(blocksCh) \cup Range(enqueued) \subseteq Range(emitted)
    /\ \A x \in Range(emitted) :
          Count(oidsCh, x) + HeldBy(x) + Count(blocksCh, x)
              + Count(enqueued, x) <= 1
    /\ ( /\ disc[1].pc = "emit"
         /\ Len(oidsCh) = 2 * cfg.OIDBatchSize
         /\ ~exiterToOIDDownloader /\ ~oidsClosed ) => ~ENABLED EmitOID(1)
    /\ \A i \in Workers :
          ( /\ worker[1][i].pc = "send"
            /\ Len(blocksCh) = cfg.OIDBatchSize
            /\ ~ctxCancelled /\ ~blocksClosed ) => ~ENABLED WorkerSend(1, i)

C18_Witness ==
    /\ disc[1].pc = "emit"
    /\ Len(oidsCh) = 2 * cfg.OIDBatchSize
    /\ ~exiterToOIDDownloader /\ ~oidsClosed
    /\ \E i \in Workers : worker[1][i].pc = "recv"

\* ------------------------------------------------------------------ liveness
\* a goroutine is live from its go statement until its function returns
Live(pc) == pc \notin {"none", "done"}

\* the exiter, the discoverer, every configured worker and the enqueuer live
AllLive(g) ==
    /\ Live(exiter[g].pc)
    /\ Live(disc[g].pc)
    /\ \A i \in 1..cfg.DownloaderWorkersCount : Live(worker[g][i].pc)
    /\ Live(queuer[g].pc)

\* the exiter has read a teardown request and has not returned yet
TeardownRunning(g) == TeardownBegun(g) /\ ~TeardownComplete(g)

\* a Start call is between its CompareAndSwap and its return
StartInProgress == \E u \in Users : userPc[u] \in {"s_client", "s_workers"}

\* C19 as stated: whenever isActive is true, either the exiter, the
\* discoverer, all the workers and the enqueuer are live, or the exiter is
\* running the barrier sequence of a requested teardown.
C19_ActiveMeansLiveOrTeardown ==
    isActive => AllLive(1) \/ TeardownRunning(1)

\* C19 amended: whenever isActive is true, either a Start call is between
\* its CompareAndSwap and its return, or the exiter, the discoverer, all the
\* workers and the enqueuer are live, or the exiter is running the barrier
\* sequence of a requested teardown.
C19_ActiveMeansStartingLiveOrTeardown ==
    isActive => StartInProgress \/ AllLive(1) \/ TeardownRunning(1)

C19_Witness ==
    /\ isActive /\ ~StartInProgress
    /\ AllLive(1) /\ ~TeardownBegun(1)
    /\ cfg.DownloaderWorkersCount = 2
    /\ enqueued # << >>

\* ------------------------------------------------------------ fatal conditions
\* some task has met a fatal condition: the discoverer holds an error, a
\* worker is at or past its stopService(true) after a failed GET or decode,
\* or the enqueuer had an error from enqueueBlock
FatalObserved(g) ==
    \/ disc[g].err
    \/ \E i \in Workers :
          worker[g][i].failed \/ worker[g][i].pc \in {"stop", "stop_send"}
    \/ queuer[g].failed

\* C20: once a task has met a fatal condition nothing panics, every teardown
\* the exiter runs from then on has the context cancelled, and the service
\* keeps moving until the teardown is complete with the context cancelled.
C20_FatalForcesTeardown ==
    FatalObserved(1) =>
        /\ ~panicked
        /\ TeardownComplete(1) => ctxCancelled
        /\ ENABLED Progress \/ TeardownComplete(1)

\* ------------------------------------------------------------- configuration
\* C21: New turns Timeout <= 0 into 5 minutes, OIDBatchSize <= 0 into 8000
\* and DownloaderWorkersCount <= 0 into 100, keeps every positive value and
\* every other field, and returns an error, not a service, when the list of
\* addresses is empty.
C21_NewNormalizes ==
    [][ (constructed = "no" /\ constructed' # "no") =>
          /\ cfg.Addresses = 0 => constructed' = "error"
          /\ constructed' = "ok" =>
                /\ cfg'.Timeout = IF cfg.Timeout <= 0 THEN 300 ELSE cfg.Timeout
                /\ cfg'.OIDBatchSize = IF cfg.OIDBatchSize <= 0
                                       THEN 8000 ELSE cfg.OIDBatchSize
                /\ cfg'.DownloaderWorkersCount =
                       IF cfg.DownloaderWorkersCount <= 0
                       THEN 100 ELSE cfg.DownloaderWorkersCount
                /\ cfg'.Addresses = cfg.Addresses
                /\ cfg'.IndexFileSize = cfg.IndexFileSize
                /\ cfg'.SkipIndexFilesSearch = cfg.SkipIndexFilesSearch
                /\ cfg'.Timeout > 0 /\ cfg'.OIDBatchSize > 0
                /\ cfg'.DownloaderWorkersCount > 0 ]_vars

C21_Witness ==
    /\ constructed = "ok"
    /\ cfg.Timeout = 300
    /\ cfg.OIDBatchSize = 1
    /\ cfg.DownloaderWorkersCount = 100

\* ------------------------------------------------------------- the normal end
\* the discoverer's fetch function returned nil and its stopService(false)
\* has sent or is sending its request, nobody called Shutdown and no task
\* met a fatal condition
QuietNormalEnd(g) ==
    /\ disc[g].pc \in {"stop_send", "done"}
    /\ ~disc[g].err
    /\ ~shutdownCalled
    /\ ~FatalObserved(g)

\* C22: after a normal end of the discovery with no error and no Shutdown
\* call, the teardown is a non-forced one and nothing is cancelled, nothing
\* panics, and the service keeps moving until the teardown is complete with
\* isActive false and the shutdown callback invoked once.
C22_NormalEndTearsDown ==
    QuietNormalEnd(1) =>
        /\ ~ctxCancelled
        /\ TeardownBegun(1) => ~exiter[1].force
        /\ ~panicked
        /\ \/ ENABLED Progress
           \/ TeardownComplete(1) /\ ~isActive /\ callbacks = 1

\* ------------------------------------------------------- errors in a worker
\* C23: when the GET or the decode of a worker returns, a cancelled request
\* (a cancellation error, by errors.Is or by its text) makes the worker
\* return without entering stopService, any other error (the expiry of the
\* timeout among them) takes it to stopService(true), and only a block takes
\* it to the send; a worker on its way through stopService(true) enters the
\* Once with true when it is fresh, then returns, and never sends.
C23_WorkerErrorClassification ==
    [][ \A i \in Workers :
          LET w  == worker[1][i]
              w2 == worker'[1][i]
          IN  /\ (w.pc = "get" /\ w2.pc # "get") =>
                    /\ w2.pc \in {"done", "stop", "send"}
                    /\ w.reqCancelled <=> w2.pc = "done"
                    /\ ~clientOpen => w2.pc # "send"
                    /\ UNCHANGED << quitVars, blocksCh >>
              /\ (w.pc = "stop" /\ w2.pc # "stop") =>
                    /\ w2.pc \in {"stop_send", "done"}
                    /\ quitOnce = "fresh" =>
                          quitOnce' = "running" /\ quitVal' = TRUE
                    /\ UNCHANGED blocksCh
              /\ (w.pc = "stop_send" /\ w2.pc # "stop_send") =>
                    w2.pc = "done" /\ UNCHANGED blocksCh ]_vars

C23_Witness ==
    /\ cfg.DownloaderWorkersCount = 2
    /\ \E i, j \in Workers :
          /\ worker[1][i].pc = "done" /\ worker[1][i].reqCancelled
          /\ ~worker[1][i].failed
          /\ worker[1][j].pc = "done" /\ worker[1][j].failed
          /\ ~worker[1][j].reqCancelled

\* -------------------------------------------------------------- the enqueuer
\* the enqueuer takes a block out of blocksCh in this step
QueuerTakes == Len(blocksCh') < Len(blocksCh)

\* the enqueuer leaves its loop in this step
QueuerLeaves ==
    queuer[1].pc \in {"recv", "enq"} /\ queuer'[1].pc \in {"stop", "done"}

\* C24 as stated: every block the enqueuer takes out of the block channel is
\* passed to enqueueBlock, the enqueuer leaves its loop only at a closed and
\* drained block channel or on an error of enqueueBlock, and it leaves no
\* block behind in the block channel unless enqueueBlock failed.
C24_EveryBlockEnqueued ==
    [][ /\ QueuerTakes =>
              /\ enqueued' = Append(enqueued, Head(blocksCh))
              /\ inFlight' = inFlight + 1
        /\ QueuerLeaves =>
              \/ queuer[1].pc = "recv" /\ blocksCh = << >> /\ blocksClosed
              \/ queuer[1].pc = "enq" /\ queuer'[1].failed ]_vars

\* C24 amended: a block the enqueuer takes out of the block channel is
\* passed to enqueueBlock, once, when the root context is not cancelled, and
\* is dropped with the enqueuer returning when it is; the enqueuer leaves its
\* loop only at a closed and drained block channel, on an error of
\* enqueueBlock, or with such a dropped block.
C24_EveryBlockEnqueuedUnlessCancelled ==
    [][ /\ QueuerTakes =>
              /\ blocksCh' = Tail(blocksCh)
              /\ IF ctxCancelled
                 THEN /\ UNCHANGED << enqueued, inFlight >>
                      /\ panicked' \/ queuer'[1].pc = "done"
                 ELSE /\ enqueued' = Append(enqueued, Head(blocksCh))
                      /\ inFlight' = inFlight + 1
                      /\ queuer'[1].pc = "enq"
        /\ QueuerLeaves =>
              \/ queuer[1].pc = "recv" /\ blocksCh = << >> /\ blocksClosed
              \/ queuer[1].pc = "recv" /\ blocksCh # << >> /\ ctxCancelled
              \/ queuer[1].pc = "enq" /\ queuer'[1].failed
        /\ (queuer[1].pc = "enq" /\ queuer'[1].pc # "enq") =>
              /\ inFlight' = inFlight - 1
              /\ UNCHANGED << enqueued, blocksCh >> ]_vars

C24_Witness ==
    /\ queuer[1].pc = "done" /\ ~queuer[1].failed
    /\ ctxCancelled /\ ~blocksClosed
    /\ enqueued # << >>
    /\ \E i \in Workers : worker[1][i].pc = "done"

\* ---------------------------------------------------------- use after release
\* a GET or SEARCH is in progress, or a task is where it can start one
RequestPossible ==
    \/ disc[1].pc \in {"start", "loop", "stream", "emit"}
    \/ \E i \in Workers :
          \/ worker[1][i].pc = "get"
          \/ worker[1][i].pc = "recv" /\ oidsCh # << >>

\* an enqueueBlock call is in progress, or the enqueuer can start one
EnqueuePossible ==
    \/ inFlight > 0
    \/ queuer[1].pc = "enq"
    \/ queuer[1].pc = "recv" /\ blocksCh # << >> /\ ~ctxCancelled

\* C25: once the client has been closed no GET or SEARCH is in progress and
\* none can start; once the shutdown callback has been invoked no
\* enqueueBlock call is in progress and none can start; and the client, the
\* data channels and the shutdown-complete barrier are closed by the exiter
\* only, at its own step for each.
C25_NoUseAfterRelease ==
    /\ [](clientCloses > 0 => ~RequestPossible)
    /\ [](callbacks > 0 => ~EnqueuePossible)
    /\ [][ /\ clientCloses' # clientCloses => ExiterAt(1, "release")
           /\ (oidsClosed' /\ ~oidsClosed) => ExiterAt(1, "closeOids")
           /\ (blocksClosed' /\ ~blocksClosed) => ExiterAt(1, "closeBlocks")
           /\ (exiterToShutdown' /\ ~exiterToShutdown) =>
                 ExiterAt(1, "closeShutdown") ]_vars

InPipeline ==
    Len(oidsCh)
    + Cardinality({ i \in Workers : worker[1][i].pc \in {"get", "send"} })
    + Len(blocksCh)

\* no task has returned or met an error so far, so nothing was dropped
NothingDropped ==
    /\ \A i \in Workers : worker[1][i].pc \in {"none", "recv", "get", "send"}
    /\ queuer[1].pc \in {"none", "recv", "enq"}

\* C27: the ids emitted and neither passed to enqueueBlock nor dropped are
\* those in the pipeline, and there are never more of them than
\* 2*OIDBatchSize + DownloaderWorkersCount + OIDBatchSize + 1.
C27_BoundedWorkInProgress ==
    /\ InPipeline <= 2 * cfg.OIDBatchSize + cfg.DownloaderWorkersCount
                        + cfg.OIDBatchSize + 1
    /\ NothingDropped => Len(emitted) - Len(enqueued) = InPipeline
    /\ Len(emitted) - Len(enqueued) >= InPipeline

C27_Witness ==
    /\ NothingDropped
    /\ disc[1].pc = "emit" /\ ~exiterToOIDDownloader
    /\ Len(emitted) - Len(enqueued)
         = 2 * cfg.OIDBatchSize + cfg.DownloaderWorkersCount + cfg.OIDBatchSize
    /\ enqueued # << >>

\* ------------------------------------------------------------ ledger height
\* the ids a discovery that read the ledger height h requests, in order: the
\* blocks h, h+1, ... of the storage in direct-search mode; index object
\* h div S without its first h mod S ids and the objects after it otherwise
RequestedFrom(h) ==
    IF cfg.SkipIndexFilesSearch
    THEN SearchRange(h, store.blocks)
    ELSE LET all == ObjectsFrom(h \div cfg.IndexFileSize)
         IN  SubSeq(all, (h % cfg.IndexFileSize) + 1, Len(all))

\* C28: the discoverer reads the ledger height once, before its first
\* SEARCH: the value it read never changes afterwards, whatever the ledger
\* does; every search index is computed from that value (h + j*B in
\* direct-search mode, h div S and the objects after it, with h mod S ids
\* skipped in the first only, in index mode); and the ids requested are a
\* prefix of those that follow from that value, so that a growth of the
\* ledger while the pipeline runs changes none of them.
C28_LedgerHeightReadOnce ==
    /\ [](disc[1].pc \notin {"none", "start"} =>
            LET d == disc[1]
            IN  /\ d.h <= chainHeight
                /\ IF cfg.SkipIndexFilesSearch
                   THEN /\ d.startIndex >= d.h
                        /\ (d.startIndex - d.h) % cfg.OIDBatchSize = 0
                   ELSE /\ d.startIndex >= d.h \div cfg.IndexFileSize
                        /\ d.skip = IF d.startIndex = d.h \div cfg.IndexFileSize
                                    THEN d.h % cfg.IndexFileSize ELSE 0
                /\ IsPrefix(emitted, RequestedFrom(d.h))
                /\ NaturalEnd(1) => emitted = RequestedFrom(d.h))
    /\ [][ /\ disc[1].pc \notin {"none", "start"} => disc'[1].h = disc[1].h
           /\ chainHeight' # chainHeight =>
                  /\ disc' = disc /\ emitted' = emitted /\ oidsCh' = oidsCh
                  /\ worker' = worker ]_vars

\* C28, witness: the discoverer read height 0 and is about to issue a later
\* SEARCH, from a bound computed from it, while the ledger has grown past
\* that bound
C28_Witness ==
    /\ cfg.SkipIndexFilesSearch
    /\ disc[1].pc = "loop" /\ disc[1].h = 0
    /\ disc[1].startIndex = cfg.OIDBatchSize
    /\ chainHeight > disc[1].startIndex
    /\ emitted = SearchRange(0, cfg.OIDBatchSize - 1)
    /\ ~exiterToOIDDownloader /\ ~ctxCancelled

\* -------------------------------------------------------------- validation
\* the configuration lacks the IndexFileSize the index-file strategy needs
MissingIndexFileSize == ~cfg.SkipIndexFilesSearch /\ cfg.IndexFileSize = 0

\* some task of the pipeline has been launched
SomeTaskRuns ==
    \E g \in Gens :
        \/ exiter[g].pc # "none" \/ disc[g].pc # "none"
        \/ queuer[g].pc # "none" \/ LaunchedWorkers(g) # {}

\* C29: a configuration in index mode with IndexFileSize = 0 is reported
\* as an error by New or by Start before any pipeline task runs: New does
\* not return a service for it or no Start call launches a task of it; the
\* discoverer is never started with it, and nothing panics.
C29_MissingFieldReported ==
    MissingIndexFileSize =>
        /\ constructed = "ok" => ~SomeTaskRuns
        /\ \A g \in Gens : disc[g].pc = "none"
        /\ ~panicked


====
